---- MODULE Spec2Model ----
(***************************************************************************)
(* A model of the telemetry extraction and interpolation engine of         *)
(* src/src/lib/sei-parser.ts: the bitstream normalizer, the protobuf       *)
(* decoder, the atom locator, the NAL scanner, the frame sequencer and the *)
(* interpolation engine.  Byte buffers are sequences of 0..255 (1-based in *)
(* TLA+, 0-based in the code: data[k] of the code is data[k + 1] here).    *)
(***************************************************************************)
EXTENDS Integers, Sequences, FiniteSets, TLC

VARIABLES
    \* stripEmulationPreventionBytes, run twice in a row
    stripIn, i, zeroCount, stripResult, firstOut, secondOut, stripPc,
    \* interpolateSeiData(frames, currentTime)
    series, currentTime, scanIdx, beforeFrame, afterFrame, snapshot, interpPc,
    \* decodeProtobuf(data)
    payload, offset, result, protoPc,
    \* extractSeiFromFile(fileBuffer), with findMdat and iterNals
    fileBuffer, pos, mdat, yielded, frames, frameNumber, extractPc,
    \* extractProtoPayload(nal)
    nalUnit, scanAt, protoPayload, locatePc,
    \* seiFramesToCsv(frames)
    csvFrames, rows, csvText, csvPc

stripVars == <<stripIn, i, zeroCount, stripResult, firstOut, secondOut, stripPc>>
interpVars == <<series, currentTime, scanIdx, beforeFrame, afterFrame, snapshot, interpPc>>
protoVars == <<payload, offset, result, protoPc>>
extractVars == <<fileBuffer, pos, mdat, yielded, frames, frameNumber, extractPc>>
locateVars == <<nalUnit, scanAt, protoPayload, locatePc>>
csvVars == <<csvFrames, rows, csvText, csvPc>>

vars == <<stripVars, interpVars, protoVars, extractVars, locateVars, csvVars>>

\* An optional value is <<>> when it is undefined and <<v>> when it holds v.
Undef == <<>>
Some(v) == <<v>>
Val(o) == o[1]

(***************************************************************************)
(* Generic helpers on byte sequences.                                      *)
(***************************************************************************)

\* All sequences over S of length 0..n.
SeqsUpTo(S, n) == UNION {[1..k -> S] : k \in 0..n}

\* pat occurs in s as a contiguous block.
Contains(s, pat) ==
    \E k \in 0..(Len(s) - Len(pat)) :
        \A j \in 1..Len(pat) : s[k + j] = pat[j]

(***************************************************************************)
(* stripEmulationPreventionBytes (sei-parser.ts 99-114).                   *)
(***************************************************************************)

\* Faulty variant: the zero count is kept across a dropped byte.
StripStepKeepsCount(st, byte) ==
    IF st.zeroCount >= 2 /\ byte = 3
    THEN st
    ELSE [result |-> Append(st.result, byte),
          zeroCount |-> IF byte = 0 THEN st.zeroCount + 1 ELSE 0]

\* Faulty variant: a 0x03 is dropped after a single zero byte.
StripStepAfterOneZero(st, byte) ==
    IF st.zeroCount >= 1 /\ byte = 3
    THEN [result |-> st.result, zeroCount |-> 0]
    ELSE [result |-> Append(st.result, byte),
          zeroCount |-> IF byte = 0 THEN st.zeroCount + 1 ELSE 0]

\* One iteration of the for loop: st = [result, zeroCount].
StripStep(st, byte) ==
    IF st.zeroCount >= 2 /\ byte = 3
    THEN [result |-> st.result, zeroCount |-> 0]
    ELSE [result |-> Append(st.result, byte),
          zeroCount |-> IF byte = 0 THEN st.zeroCount + 1 ELSE 0]

RECURSIVE StripFrom(_, _, _)
StripFrom(data, k, st) ==
    IF k > Len(data) THEN st.result
    ELSE StripFrom(data, k + 1, StripStep(st, data[k]))

\* The whole function, as the other operators use it.
stripEmulationPreventionBytes(data) ==
    StripFrom(data, 1, [result |-> <<>>, zeroCount |-> 0])

\* The variables of the other operations, while they are not running.
StripIdle ==
    /\ stripIn = <<>>
    /\ i = 0
    /\ zeroCount = 0
    /\ stripResult = <<>>
    /\ firstOut = Undef
    /\ secondOut = Undef
    /\ stripPc = "idle"

InterpIdle ==
    /\ series = <<>>
    /\ currentTime = Undef
    /\ scanIdx = 0
    /\ beforeFrame = Undef
    /\ afterFrame = Undef
    /\ snapshot = Undef
    /\ interpPc = "idle"

ProtoIdle ==
    /\ payload = <<>>
    /\ offset = 0
    /\ result = Undef
    /\ protoPc = "idle"

ExtractIdle ==
    /\ fileBuffer = <<>>
    /\ pos = 0
    /\ mdat = Undef
    /\ yielded = <<>>
    /\ frames = <<>>
    /\ frameNumber = 0
    /\ extractPc = "idle"

LocateIdle ==
    /\ nalUnit = <<>>
    /\ scanAt = 0
    /\ protoPayload = Undef
    /\ locatePc = "idle"

CsvIdle ==
    /\ csvFrames = <<>>
    /\ rows = <<>>
    /\ csvText = <<>>
    /\ csvPc = "idle"

\* Bounds and inputs of the normalizer's specification.
MaxStripLen == 6
StripBytes == {0, 3, 66}

StripInit ==
    /\ stripIn \in SeqsUpTo(StripBytes, MaxStripLen)
    /\ i = 0
    /\ zeroCount = 0
    /\ stripResult = <<>>
    /\ firstOut = Undef
    /\ secondOut = Undef
    /\ stripPc = "pass1"
    /\ InterpIdle /\ ProtoIdle /\ ExtractIdle /\ LocateIdle /\ CsvIdle

\* The data the running pass reads.
StripData == IF stripPc = "pass1" THEN stripIn ELSE firstOut

\* One iteration of the loop of lines 103-111.
StripByte ==
    /\ stripPc \in {"pass1", "pass2"}
    /\ i < Len(StripData)
    /\ LET st == StripStep([result |-> stripResult, zeroCount |-> zeroCount],
                           StripData[i + 1])
       IN /\ stripResult' = st.result
          /\ zeroCount' = st.zeroCount
    /\ i' = i + 1
    /\ UNCHANGED <<stripIn, firstOut, secondOut, stripPc>>
    /\ UNCHANGED <<interpVars, protoVars, extractVars, locateVars, csvVars>>

\* Line 113 of the first call; the second call starts on its output.
StripReturnFirst ==
    /\ stripPc = "pass1"
    /\ i >= Len(stripIn)
    /\ firstOut' = stripResult
    /\ stripPc' = "pass2"
    /\ i' = 0
    /\ zeroCount' = 0
    /\ stripResult' = <<>>
    /\ UNCHANGED <<stripIn, secondOut>>
    /\ UNCHANGED <<interpVars, protoVars, extractVars, locateVars, csvVars>>

\* Line 113 of the second call.
StripReturnSecond ==
    /\ stripPc = "pass2"
    /\ i >= Len(firstOut)
    /\ secondOut' = stripResult
    /\ stripPc' = "done"
    /\ UNCHANGED <<stripIn, i, zeroCount, stripResult, firstOut>>
    /\ UNCHANGED <<interpVars, protoVars, extractVars, locateVars, csvVars>>

StripNext == StripByte \/ StripReturnFirst \/ StripReturnSecond

SpecStrip == StripInit /\ [][StripNext]_vars

\* The input holds an escape byte followed by a 0x03 that the scan keeps.
KeepsEscapePattern(x) ==
    Contains(x, <<0, 0, 3, 3>>) \/ Contains(x, <<0, 0, 3, 0, 3>>)

\* C10 as stated: for every byte sequence a second pass changes nothing and
\* the output of one pass holds no 0x00 0x00 0x03.
C10_IdempotentNoPattern ==
    stripPc = "done" =>
        /\ secondOut = firstOut
        /\ ~Contains(firstOut, <<0, 0, 3>>)

\* C10 amended: a second pass changes nothing, and the output of one pass
\* holds no 0x00 0x00 0x03, exactly when the input holds neither
\* 00 00 03 03 nor 00 00 03 00 03.
C10_IdempotentUnlessEscapedThree ==
    stripPc = "done" =>
        /\ (secondOut = firstOut) <=> ~KeepsEscapePattern(stripIn)
        /\ ~Contains(firstOut, <<0, 0, 3>>) <=> ~KeepsEscapePattern(stripIn)

\* An input with an escape byte that one pass removes and a second pass
\* leaves alone.
C10_Witness ==
    /\ stripPc = "done"
    /\ Contains(stripIn, <<0, 0, 3>>)
    /\ ~KeepsEscapePattern(stripIn)
    /\ Len(firstOut) < Len(stripIn)
    /\ secondOut = firstOut

(***************************************************************************)
(* Numbers.  A JavaScript number is modelled by the rational it denotes, a *)
(* record [n, d] in lowest terms with d > 0; arithmetic is exact (IEEE     *)
(* rounding is not modelled).                                              *)
(***************************************************************************)

Abs(x) == IF x < 0 THEN -x ELSE x

RECURSIVE GCD(_, _)
GCD(a, b) == IF b = 0 THEN a ELSE GCD(b, a % b)

Rat(n, d) ==
    LET g == GCD(Abs(n), Abs(d))
        sg == IF d < 0 THEN -1 ELSE 1
    IN [n |-> sg * (n \div g), d |-> sg * (d \div g)]

R(n) == Rat(n, 1)
RAdd(a, b) == Rat(a.n * b.d + b.n * a.d, a.d * b.d)
RSub(a, b) == Rat(a.n * b.d - b.n * a.d, a.d * b.d)
RMul(a, b) == Rat(a.n * b.n, a.d * b.d)
RDiv(a, b) == Rat(a.n * b.d, a.d * b.n)
RLt(a, b) == a.n * b.d < b.n * a.d
RLeq(a, b) == a.n * b.d <= b.n * a.d

(***************************************************************************)
(* SeiMetadata and SeiFrame (sei-parser.ts 4-38, 333-337).  An absent      *)
(* field holds Undef.  The optional timestamp of SeiMetadata is left out:  *)
(* no code of the parser writes or reads it.                               *)
(***************************************************************************)

\* null, where the code returns or holds a record or null.
Null == <<>>

DiscreteFields ==
    {"version", "gearState", "frameSeqNo", "blinkerOnLeft", "blinkerOnRight",
     "brakeApplied", "autopilotState"}

ContinuousFields ==
    {"vehicleSpeedMps", "acceleratorPedalPosition", "steeringWheelAngle",
     "latitudeDeg", "longitudeDeg", "headingDeg", "linearAccelerationMps2X",
     "linearAccelerationMps2Y", "linearAccelerationMps2Z"}

MetaFields == DiscreteFields \cup ContinuousFields

\* const result: SeiMetadata = {}
EmptyMeta == [f \in MetaFields |-> Undef]

SeiFrame(fn, ts, md) == [frameNumber |-> fn, timestamp |-> ts, metadata |-> md]

\* timestamp: frameNumber / 36
FrameRate == 36

(***************************************************************************)
(* interpolateSeiData (sei-parser.ts 374-429).                             *)
(***************************************************************************)

\* Faulty variant: the weight is measured from the later frame.
InterpFracFromAfter(before, after, t) ==
    RDiv(RSub(after.timestamp, t), RSub(after.timestamp, before.timestamp))

\* Lines 397-399: const t = (currentTime - beforeFrame.timestamp) / timeDiff
InterpFrac(before, after, t) ==
    RDiv(RSub(t, before.timestamp), RSub(after.timestamp, before.timestamp))

\* Faulty variant: the ends are swapped.
LerpSwapped(a, b, frac) ==
    IF a = Undef \/ b = Undef
    THEN (IF a # Undef THEN a ELSE b)
    ELSE Some(RAdd(Val(b), RMul(RSub(Val(a), Val(b)), frac)))

\* Faulty variant: a field missing on one side is missing in the result.
LerpAbsentIfEither(a, b, frac) ==
    IF a = Undef \/ b = Undef
    THEN Undef
    ELSE Some(RAdd(Val(a), RMul(RSub(Val(b), Val(a)), frac)))

\* Lines 402-405: a ?? b when a side is undefined, else a + (b - a) * t.
Lerp(a, b, frac) ==
    IF a = Undef \/ b = Undef
    THEN (IF a # Undef THEN a ELSE b)
    ELSE Some(RAdd(Val(a), RMul(RSub(Val(b), Val(a)), frac)))

\* Faulty variant: the enum and boolean fields come from the later frame.
InterpolatedFromAfter(before, after, frac) ==
    [f \in MetaFields |->
        IF f \in DiscreteFields THEN after[f] ELSE Lerp(before[f], after[f], frac)]

\* Lines 408-428: the record built from the two bracketing records.
Interpolated(before, after, frac) ==
    [f \in MetaFields |->
        IF f \in DiscreteFields THEN before[f] ELSE Lerp(before[f], after[f], frac)]

\* Faulty variant: the record of the nearer bracketing frame is returned.
InterpResultNearest(fs, before, after, t) ==
    IF before = Null THEN fs[1].metadata
    ELSE IF after = Null THEN fs[Len(fs)].metadata
    ELSE IF RLeq(RSub(t, before.timestamp), RSub(after.timestamp, t))
    THEN before.metadata
    ELSE after.metadata

\* Faulty variant: the two clamps are swapped.
InterpResultSwappedEnds(fs, before, after, t) ==
    IF before = Null THEN fs[Len(fs)].metadata
    ELSE IF after = Null THEN fs[1].metadata
    ELSE IF RSub(after.timestamp, before.timestamp) = R(0) THEN before.metadata
    ELSE Interpolated(before.metadata, after.metadata, InterpFrac(before, after, t))

\* Lines 392-428, once the scan has set beforeFrame and afterFrame.
InterpResult(fs, before, after, t) ==
    IF before = Null THEN fs[1].metadata
    ELSE IF after = Null THEN fs[Len(fs)].metadata
    ELSE IF RSub(after.timestamp, before.timestamp) = R(0) THEN before.metadata
    ELSE Interpolated(before.metadata, after.metadata, InterpFrac(before, after, t))

\* Faulty variant: a series of one frame is answered like an empty one.
EarlyReturnNoSingle(fs) ==
    IF Len(fs) <= 1 THEN [returns |-> TRUE, value |-> Null]
    ELSE [returns |-> FALSE, value |-> Null]

\* Lines 375-376: whether the call returns before the scan, and what.
EarlyReturn(fs) ==
    IF Len(fs) = 0 THEN [returns |-> TRUE, value |-> Null]
    ELSE IF Len(fs) = 1 THEN [returns |-> TRUE, value |-> fs[1].metadata]
    ELSE [returns |-> FALSE, value |-> Null]

\* Bounds and inputs of the interpolation engine's specification.
MaxFrames == 3
MaxTick == 4

M0 == [EmptyMeta EXCEPT !.version = Some(0)]
M1 == [EmptyMeta EXCEPT !.version = Some(1), !.gearState = Some(1), !.frameSeqNo = Some(100),
         !.vehicleSpeedMps = Some(R(10)), !.acceleratorPedalPosition = Some(R(0)),
         !.blinkerOnLeft = Some(FALSE), !.blinkerOnRight = Some(FALSE),
         !.brakeApplied = Some(FALSE), !.autopilotState = Some(0),
         !.latitudeDeg = Some(R(40)), !.headingDeg = Some(R(90))]
M2 == [EmptyMeta EXCEPT !.version = Some(1), !.gearState = Some(1), !.frameSeqNo = Some(101),
         !.vehicleSpeedMps = Some(R(20)), !.acceleratorPedalPosition = Some(R(50)),
         !.steeringWheelAngle = Some(R(-5)), !.blinkerOnLeft = Some(TRUE),
         !.blinkerOnRight = Some(FALSE), !.brakeApplied = Some(TRUE),
         !.autopilotState = Some(1), !.latitudeDeg = Some(R(42)),
         !.longitudeDeg = Some(R(-74)), !.linearAccelerationMps2X = Some(R(3))]
M3 == [EmptyMeta EXCEPT !.version = Some(2), !.gearState = Some(2),
         !.steeringWheelAngle = Some(R(15)), !.blinkerOnRight = Some(TRUE),
         !.headingDeg = Some(R(180)), !.linearAccelerationMps2Y = Some(R(-1)),
         !.linearAccelerationMps2Z = Some(R(9))]
SampleMetas == {M0, M1, M2, M3}

\* The elements of a set of integers in increasing order.
SortedSeq(K) ==
    CHOOSE s \in [1..Cardinality(K) -> K] :
        \A a, b \in 1..Cardinality(K) : a < b => s[a] < s[b]

\* Series with strictly increasing timestamps k/36 and indices from 0.
SeriesOf(K, metas) ==
    LET ticks == SortedSeq(K)
    IN [j \in 1..Cardinality(K) |->
            SeiFrame(j - 1, Rat(ticks[j], FrameRate), metas[j])]

InterpInit ==
    /\ \E K \in {k \in SUBSET (1..MaxTick) : Cardinality(k) <= MaxFrames} :
         \E metas \in [1..Cardinality(K) -> SampleMetas] :
            series = SeriesOf(K, metas)
    /\ \E j \in 0..(2 * MaxTick + 2) : currentTime = Rat(j, 2 * FrameRate)
    /\ scanIdx = 0
    /\ beforeFrame = Undef
    /\ afterFrame = Undef
    /\ snapshot = Undef
    /\ interpPc = "enter"
    /\ StripIdle /\ ProtoIdle /\ ExtractIdle /\ LocateIdle /\ CsvIdle

\* Line 375: if (frames.length === 0) return null
InterpReturnNull ==
    /\ interpPc = "enter"
    /\ Len(series) = 0
    /\ EarlyReturn(series).returns
    /\ snapshot' = EarlyReturn(series).value
    /\ interpPc' = "done"
    /\ UNCHANGED <<series, currentTime, scanIdx, beforeFrame, afterFrame>>
    /\ UNCHANGED <<stripVars, protoVars, extractVars, locateVars, csvVars>>

\* Line 376: if (frames.length === 1) return frames[0].metadata
InterpReturnOnly ==
    /\ interpPc = "enter"
    /\ Len(series) # 0
    /\ EarlyReturn(series).returns
    /\ snapshot' = EarlyReturn(series).value
    /\ interpPc' = "done"
    /\ UNCHANGED <<series, currentTime, scanIdx, beforeFrame, afterFrame>>
    /\ UNCHANGED <<stripVars, protoVars, extractVars, locateVars, csvVars>>

\* Lines 379-380: the scan starts with no frame on either side.
InterpStartScan ==
    /\ interpPc = "enter"
    /\ ~EarlyReturn(series).returns
    /\ beforeFrame' = Null
    /\ afterFrame' = Null
    /\ scanIdx' = 0
    /\ interpPc' = "scan"
    /\ UNCHANGED <<series, currentTime, snapshot>>
    /\ UNCHANGED <<stripVars, protoVars, extractVars, locateVars, csvVars>>

\* Lines 382-390: one iteration of the scan; the break leaves the loop.
InterpScanStep ==
    /\ interpPc = "scan"
    /\ scanIdx < Len(series)
    /\ LET f == series[scanIdx + 1]
       IN /\ beforeFrame' = IF RLeq(f.timestamp, currentTime) THEN f ELSE beforeFrame
          /\ IF RLt(currentTime, f.timestamp)
             THEN /\ afterFrame' = f
                  /\ interpPc' = "edges"
                  /\ scanIdx' = scanIdx
             ELSE /\ afterFrame' = afterFrame
                  /\ interpPc' = "scan"
                  /\ scanIdx' = scanIdx + 1
    /\ UNCHANGED <<series, currentTime, snapshot>>
    /\ UNCHANGED <<stripVars, protoVars, extractVars, locateVars, csvVars>>

\* Lines 392-428: the edge cases and the interpolated record.
InterpFinish ==
    /\ \/ interpPc = "edges"
       \/ interpPc = "scan" /\ scanIdx >= Len(series)
    /\ snapshot' = InterpResult(series, beforeFrame, afterFrame, currentTime)
    /\ interpPc' = "done"
    /\ UNCHANGED <<series, currentTime, scanIdx, beforeFrame, afterFrame>>
    /\ UNCHANGED <<stripVars, protoVars, extractVars, locateVars, csvVars>>

InterpNext ==
    \/ InterpReturnNull
    \/ InterpReturnOnly
    \/ InterpStartScan
    \/ InterpScanStep
    \/ InterpFinish

SpecInterp == InterpInit /\ [][InterpNext]_vars

\* The positions of the frames at or before the query time, and after it.
AtOrBefore == {k \in 1..Len(series) : RLeq(series[k].timestamp, currentTime)}
After == {k \in 1..Len(series) : RLt(currentTime, series[k].timestamp)}
Bracketed == AtOrBefore # {} /\ After # {}
LastAtOrBefore == CHOOSE k \in AtOrBefore : \A j \in AtOrBefore : j <= k

\* The discrete fields of a record.
Discrete(md) == [f \in DiscreteFields |-> md[f]]

KnotRecord(k) ==
    IF k = Len(series) THEN series[k].metadata
    ELSE [f \in MetaFields |->
            IF f \in ContinuousFields /\ series[k].metadata[f] = Undef
            THEN series[k + 1].metadata[f]
            ELSE series[k].metadata[f]]

C6_ClampsToEnds ==
    (interpPc = "done" /\ Len(series) >= 2) =>
        /\ RLt(currentTime, series[1].timestamp) => snapshot = series[1].metadata
        /\ RLeq(series[Len(series)].timestamp, currentTime)
              => snapshot = series[Len(series)].metadata

\* A query past the end of a series whose two ends differ.
C6_Witness ==
    /\ interpPc = "done"
    /\ Len(series) >= 2
    /\ RLt(series[Len(series)].timestamp, currentTime)
    /\ series[1].metadata # series[Len(series)].metadata
    /\ snapshot = series[Len(series)].metadata

C8_NullOnlyWhenEmpty ==
    interpPc = "done" =>
        /\ (snapshot = Null) <=> (Len(series) = 0)
        /\ Len(series) = 1 => snapshot = series[1].metadata

\* A series of one frame queried before its timestamp.
C8_Witness ==
    /\ interpPc = "done"
    /\ Len(series) = 1
    /\ RLt(currentTime, series[1].timestamp)
    /\ snapshot = series[1].metadata

\* v lies between a and b.
Between(a, v, b) == (RLeq(a, v) /\ RLeq(v, b)) \/ (RLeq(b, v) /\ RLeq(v, a))

\* The two-frame scenario: speed 10 at 1/36 s, speed 20 at 2/36 s, query at
\* the midpoint.
MidpointScenario ==
    /\ Len(series) = 2
    /\ series[1].timestamp = Rat(1, FrameRate)
    /\ series[2].timestamp = Rat(2, FrameRate)
    /\ series[1].metadata.vehicleSpeedMps = Some(R(10))
    /\ series[2].metadata.vehicleSpeedMps = Some(R(20))
    /\ currentTime = Rat(3, 2 * FrameRate)

ByteAt(data, k) == IF k >= 0 /\ k < Len(data) THEN Some(data[k + 1]) ELSE Undef

\* The set bits of a byte; undefined converts to 0 under & .
BitsOf(b) == IF b = Undef THEN {} ELSE {k \in 0..7 : (Val(b) \div (2 ^ k)) % 2 = 1}

\* (bits) << shift: the shift count is taken modulo 32, bits past 31 are lost.
ShiftLeft(bits, shift) == {k + (shift % 32) : k \in bits} \cap (0..31)

RECURSIVE SumPow2(_)
SumPow2(bits) ==
    IF bits = {} THEN 0
    ELSE LET k == CHOOSE x \in bits : TRUE IN (2 ^ k) + SumPow2(bits \ {k})

\* The 32-bit signed integer with these bits set.
ToInt32(bits) ==
    IF 31 \in bits
    THEN (SumPow2(bits \ {31}) - (2 ^ 30)) - (2 ^ 30)
    ELSE SumPow2(bits)

\* The loop of lines 173-179, from the state [value bits, shift, bytesRead].
RECURSIVE VarintFrom(_, _, _, _, _)
VarintFrom(data, offs, bits, shift, bytesRead) ==
    IF ~(offs + bytesRead < Len(data))
    THEN [value |-> ToInt32(bits), bytesRead |-> bytesRead]
    ELSE LET byte == ByteAt(data, offs + bytesRead)
             bits2 == bits \cup ShiftLeft(BitsOf(byte) \ {7}, shift)
         IN IF 7 \notin BitsOf(byte)
            THEN [value |-> ToInt32(bits2), bytesRead |-> bytesRead + 1]
            ELSE VarintFrom(data, offs, bits2, shift + 7, bytesRead + 1)

\* decodeVarint (lines 168-182).
decodeVarint(data, offs) == VarintFrom(data, offs, {}, 0, 0)

\* A number the model does not evaluate, kept as its IEEE-754 bytes.
RawNumber(bytes) == [bits |-> bytes]

\* The value of a little-endian IEEE-754 single; exponents the model's
\* integers cannot hold, infinities and NaN stay RawNumber.
Float32Value(b0, b1, b2, b3) ==
    LET sign == IF b3 >= 128 THEN -1 ELSE 1
        exp == (b3 % 128) * 2 + (b2 \div 128)
        mant == (b2 % 128) * 65536 + b1 * 256 + b0
    IN IF exp = 0 /\ mant = 0 THEN R(0)
       ELSE IF exp >= 150 /\ exp <= 156
       THEN R(sign * (8388608 + mant) * (2 ^ (exp - 150)))
       ELSE IF exp >= 121 /\ exp < 150
       THEN Rat(sign * (8388608 + mant), 2 ^ (150 - exp))
       ELSE RawNumber(<<b0, b1, b2, b3>>)

\* decodeFloat (lines 184-188): 0 when fewer than 4 bytes are left.
decodeFloat(data, offs) ==
    IF offs + 4 > Len(data) THEN R(0)
    ELSE Float32Value(data[offs + 1], data[offs + 2], data[offs + 3], data[offs + 4])

\* The value of a little-endian IEEE-754 double, evaluated when its low 32
\* mantissa bits are 0 and its exponent is small, else RawNumber.
Float64Value(b) ==
    LET sign == IF b[8] >= 128 THEN -1 ELSE 1
        exp == (b[8] % 128) * 16 + (b[7] \div 16)
        top == (b[7] % 16) * 65536 + b[6] * 256 + b[5]
        lowZero == b[1] = 0 /\ b[2] = 0 /\ b[3] = 0 /\ b[4] = 0
    IN IF exp = 0 /\ top = 0 /\ lowZero THEN R(0)
       ELSE IF lowZero /\ exp >= 1043 /\ exp <= 1052
       THEN R(sign * (1048576 + top) * (2 ^ (exp - 1043)))
       ELSE IF lowZero /\ exp >= 1014 /\ exp < 1043
       THEN Rat(sign * (1048576 + top), 2 ^ (1043 - exp))
       ELSE RawNumber(b)

\* decodeDouble (lines 190-194): 0 when fewer than 8 bytes are left.
decodeDouble(data, offs) ==
    IF offs + 8 > Len(data) THEN R(0)
    ELSE Float64Value([k \in 1..8 |-> data[offs + k]])

\* The schema of the switch of lines 208-311: field number -> record field.
FieldName(fieldNumber) ==
    CASE fieldNumber = 1 -> "version"
      [] fieldNumber = 2 -> "gearState"
      [] fieldNumber = 3 -> "frameSeqNo"
      [] fieldNumber = 4 -> "vehicleSpeedMps"
      [] fieldNumber = 5 -> "acceleratorPedalPosition"
      [] fieldNumber = 6 -> "steeringWheelAngle"
      [] fieldNumber = 7 -> "blinkerOnLeft"
      [] fieldNumber = 8 -> "blinkerOnRight"
      [] fieldNumber = 9 -> "brakeApplied"
      [] fieldNumber = 10 -> "autopilotState"
      [] fieldNumber = 11 -> "latitudeDeg"
      [] fieldNumber = 12 -> "longitudeDeg"
      [] fieldNumber = 13 -> "headingDeg"
      [] fieldNumber = 14 -> "linearAccelerationMps2X"
      [] fieldNumber = 15 -> "linearAccelerationMps2Y"
      [] fieldNumber = 16 -> "linearAccelerationMps2Z"

\* The wire type each case of the switch accepts.
SchemaWireType(fieldNumber) ==
    IF fieldNumber \in {4, 5, 6} THEN 5
    ELSE IF fieldNumber \in 11..16 THEN 1
    ELSE 0

\* The fields assigned value !== 0.
BoolFields == {7, 8, 9}

\* The default case (lines 312-326): the offset after an unknown field.
SkipUnknown(data, o1, wireType) ==
    IF wireType = 0 THEN o1 + decodeVarint(data, o1).bytesRead
    ELSE IF wireType = 1 THEN o1 + 8
    ELSE IF wireType = 2
    THEN o1 + decodeVarint(data, o1).bytesRead + decodeVarint(data, o1).value
    ELSE IF wireType = 5 THEN o1 + 4
    ELSE o1

\* A case 1..16 of the switch: the field is stored and consumed when the
\* wire type is the schema's, and nothing is consumed otherwise.
KnownField(data, o1, fieldNumber, wireType, res) ==
    IF wireType # SchemaWireType(fieldNumber)
    THEN [offset |-> o1, result |-> res]
    ELSE IF wireType = 0
    THEN LET v == decodeVarint(data, o1)
         IN [offset |-> o1 + v.bytesRead,
             result |-> [res EXCEPT ![FieldName(fieldNumber)] =
                            IF fieldNumber \in BoolFields
                            THEN Some(v.value # 0)
                            ELSE Some(v.value)]]
    ELSE IF wireType = 5
    THEN [offset |-> o1 + 4,
          result |-> [res EXCEPT ![FieldName(fieldNumber)] = Some(decodeFloat(data, o1))]]
    ELSE [offset |-> o1 + 8,
          result |-> [res EXCEPT ![FieldName(fieldNumber)] = Some(decodeDouble(data, o1))]]

\* One iteration of the loop of lines 200-328 from a cursor below the
\* length: the new cursor, the record, and whether line 203 left the loop.
DecodeIter(data, offs, res) ==
    LET tag == decodeVarint(data, offs)
        o1 == offs + tag.bytesRead
        fieldNumber == tag.value \div 8
        wireType == tag.value % 8
    IN IF o1 >= Len(data)
       THEN [offset |-> o1, result |-> res, brk |-> TRUE]
       ELSE IF fieldNumber \in 1..16
       THEN LET k == KnownField(data, o1, fieldNumber, wireType, res)
            IN [offset |-> k.offset, result |-> k.result, brk |-> FALSE]
       ELSE [offset |-> SkipUnknown(data, o1, wireType), result |-> res,
             brk |-> FALSE]

\* Protobuf fields as the recorder writes them, and malformed ones.
FVersion1 == <<8, 1>>
FVersion0 == <<8, 0>>
FGearDrive == <<16, 1>>
FSeq300 == <<24, 172, 2>>
FSpeed10 == <<37, 0, 0, 32, 65>>
FSpeed20 == <<37, 0, 0, 160, 65>>
FBlinkerLeft == <<56, 1>>
FLatitude40 == <<89, 0, 0, 0, 0, 0, 0, 68, 64>>
\* field 17, length-delimited, 2 bytes
FUnknownBytes == <<138, 1, 2, 170, 187>>
\* field 0, length-delimited, a length varint that decodes to -6
FUnknownNegativeLength == <<2, 250, 255, 255, 255, 15>>
\* field 1 with wire type 5
FVersionAsFixed32 == <<13, 1, 0, 0, 0>>
\* field 17 with wire type 3
FUnknownGroup == <<139, 1>>

\* field 17 as a varint, as a 32-bit and as a 64-bit value
FUnknownVarint == <<136, 1, 5>>
FUnknownFixed32 == <<141, 1, 1, 2, 3, 4>>
FUnknownFixed64 == <<137, 1, 1, 2, 3, 4, 5, 6, 7, 8>>
\* field 2 with wire type 2 and one byte of content
FGearAsBytes == <<18, 1, 8>>
\* field 3 with the varint of 2^31
FSeqTwoTo31 == <<24, 128, 128, 128, 128, 8>>

FieldSamples ==
    {FVersion1, FVersion0, FGearDrive, FSeq300, FSpeed10, FSpeed20,
     FBlinkerLeft, FLatitude40, FUnknownBytes, FUnknownNegativeLength,
     FVersionAsFixed32, FUnknownGroup, FUnknownVarint, FUnknownFixed32,
     FUnknownFixed64, FGearAsBytes, FSeqTwoTo31}

RECURSIVE Flatten(_)
Flatten(ss) == IF ss = <<>> THEN <<>> ELSE Head(ss) \o Flatten(Tail(ss))

\* Bounds of the decoder's specification: fields per payload, and bytes cut
\* off the end of a payload.
MaxFields == 2
MaxCut == 2

ProtoInit ==
    /\ \E fs \in SeqsUpTo(FieldSamples, MaxFields) :
         \E cut \in 0..MaxCut :
            /\ cut <= Len(Flatten(fs))
            /\ payload = SubSeq(Flatten(fs), 1, Len(Flatten(fs)) - cut)
    /\ offset = 0
    /\ result = EmptyMeta
    /\ protoPc = "loop"
    /\ StripIdle /\ InterpIdle /\ ExtractIdle /\ LocateIdle /\ CsvIdle

\* One iteration of the loop that decodes or skips a field (lines 201-327).
ProtoField ==
    /\ protoPc = "loop"
    /\ offset < Len(payload)
    /\ ~DecodeIter(payload, offset, result).brk
    /\ offset' = DecodeIter(payload, offset, result).offset
    /\ result' = DecodeIter(payload, offset, result).result
    /\ UNCHANGED <<payload, protoPc>>
    /\ UNCHANGED <<stripVars, interpVars, extractVars, locateVars, csvVars>>

\* The iteration whose tag ends the data (line 203: break).
ProtoBreak ==
    /\ protoPc = "loop"
    /\ offset < Len(payload)
    /\ DecodeIter(payload, offset, result).brk
    /\ offset' = DecodeIter(payload, offset, result).offset
    /\ protoPc' = "done"
    /\ UNCHANGED <<payload, result>>
    /\ UNCHANGED <<stripVars, interpVars, extractVars, locateVars, csvVars>>

\* The loop condition fails (line 200) and the record is returned (line 330).
ProtoReturn ==
    /\ protoPc = "loop"
    /\ offset >= Len(payload)
    /\ protoPc' = "done"
    /\ UNCHANGED <<payload, offset, result>>
    /\ UNCHANGED <<stripVars, interpVars, extractVars, locateVars, csvVars>>

ProtoNext == ProtoField \/ ProtoBreak \/ ProtoReturn

SpecProto == ProtoInit /\ [][ProtoNext]_vars

\* C2: for every payload, every iteration of the loop of decodeProtobuf
\* leaves the decode cursor strictly beyond where the iteration found it, so
\* the loop ends.
C2_CursorAdvances ==
    (protoPc = "loop" /\ offset < Len(payload)) =>
        DecodeIter(payload, offset, result).offset > offset

\* Well-formed fields of the schema, with the record field each sets and
\* the value it carries.
KnownSamples == {FVersion1, FGearDrive, FSeq300, FSpeed10, FBlinkerLeft, FLatitude40}

SampleName(f) == FieldName(f[1] \div 8)

SampleValue(f) ==
    CASE f = FVersion1 -> Some(1)
      [] f = FGearDrive -> Some(1)
      [] f = FSeq300 -> Some(300)
      [] f = FSpeed10 -> Some(R(10))
      [] f = FBlinkerLeft -> Some(TRUE)
      [] f = FLatitude40 -> Some(R(40))

\* The payloads that end in the middle of a field: well-formed fields, then
\* the tag of one more field of another name with 1..MaxCut bytes missing
\* from its value.
TruncatedCases ==
    {[payload |-> Flatten(before) \o SubSeq(f, 1, Len(f) - cut),
      field |-> SampleName(f),
      before |-> before] :
        before \in SeqsUpTo(KnownSamples, MaxFields - 1),
        f \in KnownSamples,
        cut \in 1..MaxCut}

\* C15: when a payload ends in the middle of a field, the record returned
\* does not hold that field, and the fields decoded before it are kept.
C15_TruncatedFieldNotEmitted ==
    protoPc = "done" =>
        \A c \in TruncatedCases :
            (/\ payload = c.payload
             /\ Len(c.payload) > Len(Flatten(c.before))
             /\ \A k \in 1..Len(c.before) : SampleName(c.before[k]) # c.field) =>
                /\ result[c.field] = Undef
                /\ \A k \in 1..Len(c.before) :
                      result[SampleName(c.before[k])] = SampleValue(c.before[k])

\* Fields whose (field number, wire type) pair is not in the schema: field
\* 17 with wire types 0, 1, 2 and 5, and fields 1 and 2 with a wire type
\* that is not theirs.
OffSchemaSamples ==
    {FUnknownVarint, FUnknownFixed64, FUnknownBytes, FUnknownFixed32,
     FVersionAsFixed32, FGearAsBytes}

\* The record of a sequence of well-formed fields: each field holds the
\* value of the last sample that names it.
RecordOf(fs) ==
    [n \in MetaFields |->
        IF \E k \in 1..Len(fs) : fs[k] \in KnownSamples /\ SampleName(fs[k]) = n
        THEN SampleValue(fs[CHOOSE k \in 1..Len(fs) :
                               /\ fs[k] \in KnownSamples /\ SampleName(fs[k]) = n
                               /\ \A j \in (k + 1)..Len(fs) :
                                     ~(fs[j] \in KnownSamples /\ SampleName(fs[j]) = n)])
        ELSE Undef]

\* The payloads of well-formed fields and exactly one off-schema field, with
\* the position and length of that field and the record of the others.
OffSchemaCases ==
    {[payload |-> Flatten(fs),
      at |-> Len(Flatten(SubSeq(fs, 1,
                (CHOOSE j \in 1..Len(fs) : fs[j] \in OffSchemaSamples) - 1))),
      length |-> Len(fs[CHOOSE j \in 1..Len(fs) : fs[j] \in OffSchemaSamples]),
      expect |-> RecordOf(fs)] :
        fs \in {x \in SeqsUpTo(KnownSamples \cup OffSchemaSamples, MaxFields) :
                  Cardinality({j \in 1..Len(x) : x[j] \in OffSchemaSamples}) = 1}}

\* C16: a field whose (field number, wire type) pair is not in the schema
\* is consumed whole, by the length rule of its wire type, and sets nothing:
\* the record returned is the record of the payload without that field.
C16_OffSchemaFieldSkipped ==
    \A c \in OffSchemaCases :
        payload = c.payload =>
            /\ (protoPc = "loop" /\ offset = c.at) =>
                  /\ DecodeIter(payload, offset, result).offset = c.at + c.length
                  /\ DecodeIter(payload, offset, result).result = result
            /\ protoPc = "done" => result = c.expect

\* The loop is at a tag of field 3 with wire type 0 that is followed by a
\* whole varint (its last byte has no continuation bit).
AtSeqNoVarint ==
    /\ protoPc = "loop"
    /\ offset < Len(payload)
    /\ payload[offset + 1] = 24
    /\ decodeVarint(payload, offset + 1).bytesRead >= 1
    /\ payload[offset + 1 + decodeVarint(payload, offset + 1).bytesRead] < 128

\* C17: the varint of the frame sequence number decodes to the non-negative
\* integer whose 7-bit groups, least significant first, are the low 7 bits
\* of the varint's bytes, and that integer is the frameSeqNo stored.
C17_VarintValue ==
    AtSeqNoVarint =>
        LET v == decodeVarint(payload, offset + 1)
        IN /\ v.value >= 0
           /\ \A k \in 0..(v.bytesRead - 1) :
                 (v.value \div (128 ^ k)) % 128 = payload[offset + 2 + k] % 128
           /\ DecodeIter(payload, offset, result).result.frameSeqNo = Some(v.value)

(***************************************************************************)
(* The atom locator, the NAL scanner and the payload locator               *)
(* (sei-parser.ts 60-165).  Positions are the code's 0-based offsets.      *)
(***************************************************************************)

\* DataView.getUint32(p): big-endian, for p + 4 <= length.
U32BE(data, p) ==
    data[p + 1] * 16777216 + data[p + 2] * 65536 + data[p + 3] * 256 + data[p + 4]

\* 'mdat' as character codes.
MdatType == <<109, 100, 97, 116>>

Max(a, b) == IF a >= b THEN a ELSE b
Min(a, b) == IF a <= b THEN a ELSE b

\* data.slice(from, to) for 0 <= from: the end is clamped to the length.
Slice(data, from, to) ==
    IF Min(to, Len(data)) <= from THEN <<>>
    ELSE SubSeq(data, from + 1, Min(to, Len(data)))

\* Lines 66-82: the size and header size of the box at p, or the failure of
\* line 74.
BoxHeader(data, p) ==
    LET size32 == U32BE(data, p)
    IN IF size32 = 1
       THEN IF p + 16 > Len(data)
            THEN [ok |-> FALSE, atomSize |-> 0, headerSize |-> 0]
            ELSE [ok |-> TRUE,
                  atomSize |-> U32BE(data, p + 8) * 65536 * 65536 + U32BE(data, p + 12),
                  headerSize |-> 16]
       ELSE [ok |-> TRUE,
             atomSize |-> IF size32 # 0 THEN size32 ELSE Len(data) - p,
             headerSize |-> 8]

\* One iteration of the loop of findMdat (lines 65-93) at p < length - 8:
\* "null" (return null), "found" (the region) or "next" (the next position).
FindMdatIter(data, p) ==
    LET h == BoxHeader(data, p)
    IN IF ~h.ok THEN [kind |-> "null", pos |-> p, offset |-> 0, size |-> 0]
       ELSE IF SubSeq(data, p + 5, p + 8) = MdatType
       THEN [kind |-> "found", pos |-> p,
             offset |-> p + h.headerSize, size |-> h.atomSize - h.headerSize]
       ELSE IF h.atomSize < h.headerSize
       THEN [kind |-> "null", pos |-> p, offset |-> 0, size |-> 0]
       ELSE [kind |-> "next", pos |-> p + h.atomSize, offset |-> 0, size |-> 0]

\* Line 144: const end = size > 0 ? offset + size : data.length
NalEnd(data, region) ==
    IF region.size > 0 THEN region.offset + region.size ELSE Len(data)

\* Faulty variant: a length past the region end is not refused.
NalUnusableLengthOnly(nalSize, p, end) == nalSize < 2

\* Faulty variant: a unit that ends exactly at the region end is refused.
NalUnusableAtEnd(nalSize, p, end) == nalSize < 2 \/ p + nalSize >= end

\* Line 150, after pos += 4 (p is the position of the unit's first byte).
NalUnusable(nalSize, p, end) == nalSize < 2 \/ p + nalSize > end

\* Faulty variant: the first byte is compared whole, without the mask.
NalQualifiesUnmasked(data, p) ==
    /\ ByteAt(data, p) = Some(6)
    /\ ByteAt(data, p + 1) = Some(5)

\* Lines 155-159: (firstByte & 0x1f) === 6 && secondByte === 5.
NalQualifies(data, p) ==
    /\ (BitsOf(ByteAt(data, p)) \cap (0..4)) = {1, 2}
    /\ ByteAt(data, p + 1) = Some(5)

\* The loop of extractProtoPayload (lines 121-132) from index k: the index
\* of the 0x69 marker, or -1.
RECURSIVE MarkerFrom(_, _)
MarkerFrom(nal, k) ==
    IF ~(k < Len(nal) - 1) THEN -1
    ELSE IF nal[k + 1] = 66 THEN MarkerFrom(nal, k + 1)
    ELSE IF nal[k + 1] = 105 THEN k
    ELSE -1

\* extractProtoPayload (lines 117-135): null, or the normalized bytes after
\* the marker without the unit's last byte.
extractProtoPayload(nal) ==
    IF Len(nal) < 2 THEN [found |-> FALSE, bytes |-> <<>>]
    ELSE IF MarkerFrom(nal, 3) < 0 THEN [found |-> FALSE, bytes |-> <<>>]
    ELSE [found |-> TRUE,
          bytes |-> stripEmulationPreventionBytes(
                        Slice(nal, MarkerFrom(nal, 3) + 1, Len(nal) - 1))]

\* decodeProtobuf (lines 196-331) run to its end.  The cursor after an
\* iteration depends on the cursor before it alone, so a cursor met twice is
\* a loop that never ends: hangs.
RECURSIVE DecodeFrom(_, _, _, _)
DecodeFrom(data, offs, res, seen) ==
    IF ~(offs < Len(data)) THEN [hangs |-> FALSE, result |-> res]
    ELSE IF offs \in seen THEN [hangs |-> TRUE, result |-> res]
    ELSE LET it == DecodeIter(data, offs, res)
         IN IF it.brk THEN [hangs |-> FALSE, result |-> it.result]
            ELSE DecodeFrom(data, it.offset, it.result, seen \cup {offs})

decodeProtobuf(data) == DecodeFrom(data, 0, EmptyMeta, {})

\* Faulty variant: the timestamp is computed before the index is incremented.
PushFrameStaleIndex(fs, fn, md) ==
    Append(fs, SeiFrame(fn, Rat(fn, FrameRate), md))

\* Lines 359-363: frameNumber: frameNumber++, timestamp: frameNumber / 36.
PushFrame(fs, fn, md) ==
    Append(fs, SeiFrame(fn, Rat(fn + 1, FrameRate), md))

\* Faulty variant: a unit that gives no frame still consumes an index.
LoopBodyCountsSkipped(nal, fs, fn) ==
    LET pl == extractProtoPayload(nal)
    IN IF ~pl.found THEN [hangs |-> FALSE, frames |-> fs, frameNumber |-> fn + 1]
       ELSE LET dec == decodeProtobuf(pl.bytes)
            IN IF dec.hangs
               THEN [hangs |-> TRUE, frames |-> fs, frameNumber |-> fn]
               ELSE IF dec.result.version # Undef
               THEN [hangs |-> FALSE, frames |-> PushFrame(fs, fn, dec.result),
                     frameNumber |-> fn + 1]
               ELSE [hangs |-> FALSE, frames |-> fs, frameNumber |-> fn + 1]

\* The body of the for loop of extractSeiFromFile for one yielded unit
\* (lines 353-367): "hangs", or the frames and the next index.
LoopBody(nal, fs, fn) ==
    LET pl == extractProtoPayload(nal)
    IN IF ~pl.found THEN [hangs |-> FALSE, frames |-> fs, frameNumber |-> fn]
       ELSE LET dec == decodeProtobuf(pl.bytes)
            IN IF dec.hangs
               THEN [hangs |-> TRUE, frames |-> fs, frameNumber |-> fn]
               ELSE IF dec.result.version # Undef
               THEN [hangs |-> FALSE, frames |-> PushFrame(fs, fn, dec.result),
                     frameNumber |-> fn + 1]
               ELSE [hangs |-> FALSE, frames |-> fs, frameNumber |-> fn]

(***************************************************************************)
(* Input buffers: an optional leading box, an mdat box whose declared size *)
(* is right or wrong, its content of length-prefixed units, and an         *)
(* optional trailing box.                                                  *)
(***************************************************************************)

U32Bytes(n) ==
    <<n \div 16777216, (n \div 65536) % 256, (n \div 256) % 256, n % 256>>

\* An SEI user-data-unregistered unit: header, payload type, size byte, the
\* 0x42 0x42 0x69 prefix, the payload and the trailing byte.
SeiNal(rawPayload) ==
    <<6, 5, (Len(rawPayload) + 4) % 256, 66, 66, 105>> \o rawPayload \o <<128>>

WithLength(nal) == U32Bytes(Len(nal)) \o nal

\* The units the generated regions are made of.
QualifyingKinds == {"v1s10", "v0gear", "escaped"}

UnitKinds ==
    QualifyingKinds \cup
        {"noVersion", "noMarker", "negLen", "video", "len0", "len1", "overrun",
         "overrun1", "seiOther", "seiHigh"}

UnitBytes(kind) ==
    CASE kind = "v1s10" -> WithLength(SeiNal(FVersion1 \o FSpeed10))
      [] kind = "v0gear" -> WithLength(SeiNal(FVersion0 \o FGearDrive))
      [] kind = "escaped" -> WithLength(SeiNal(<<8, 1, 37, 0, 0, 3, 0, 0>>))
      [] kind = "noVersion" -> WithLength(SeiNal(FSpeed10))
      [] kind = "noMarker" -> WithLength(<<6, 5, 4, 0, 8, 1, 128>>)
      [] kind = "negLen" -> WithLength(SeiNal(FVersion1 \o FUnknownNegativeLength))
      [] kind = "video" -> WithLength(<<101, 136, 128, 0>>)
      [] kind = "len0" -> U32Bytes(0)
      [] kind = "len1" -> U32Bytes(1) \o <<9>>
      [] kind = "overrun" -> U32Bytes(256) \o SeiNal(FVersion1)
      [] kind = "overrun1" -> U32Bytes(Len(SeiNal(FVersion1)) + 1) \o SeiNal(FVersion1)
      [] kind = "seiOther" -> WithLength(<<6, 1, 2, 0, 0, 128>>)
      [] kind = "seiHigh" -> WithLength(<<38>> \o Tail(SeiNal(FVersion0)))

\* The record a qualifying unit carries.
UnitMeta(kind) ==
    CASE kind = "v1s10" ->
            [EmptyMeta EXCEPT !.version = Some(1), !.vehicleSpeedMps = Some(R(10))]
      [] kind = "v0gear" ->
            [EmptyMeta EXCEPT !.version = Some(0), !.gearState = Some(1)]
      [] kind = "escaped" ->
            [EmptyMeta EXCEPT !.version = Some(1), !.vehicleSpeedMps = Some(R(0))]

RegionBytes(kinds) == Flatten([k \in 1..Len(kinds) |-> UnitBytes(kinds[k])])

FtypBox == U32Bytes(12) \o <<102, 116, 121, 112>> \o <<105, 115, 111, 109>>
FreeBox == U32Bytes(8) \o <<102, 114, 101, 101>>
TinyBox == U32Bytes(4) \o <<102, 114, 101, 101>>
TruncatedExtBox == U32Bytes(1) \o <<119, 105, 100, 101>> \o U32Bytes(0)
\* A 'skip' box with a 64-bit size and 4 bytes of content.
ExtBox ==
    U32Bytes(1) \o <<115, 107, 105, 112>> \o U32Bytes(0) \o U32Bytes(20)
        \o <<0, 0, 0, 0>>

\* A 12-byte box whose type and content read as the start of a telemetry
\* unit: 06 05 04 42 | 69 08 01 80.
SeiShapedBox == U32Bytes(12) \o <<6, 5, 4, 66>> \o <<105, 8, 1, 128>>

LeadKinds == {"none", "ftyp", "tiny", "ext"}
TrailKinds == {"none", "free", "truncExt", "seiShaped"}
MdatKinds == {"exact", "zero", "ext", "over", "under", "absent"}

\* Bytes by which an over-declared mdat box exceeds the file (a file cut
\* short).
OverBy == 32

LeadBytes(lead) ==
    CASE lead = "none" -> <<>>
      [] lead = "ftyp" -> FtypBox
      [] lead = "tiny" -> TinyBox
      [] lead = "ext" -> ExtBox

TrailBytes(trail) ==
    CASE trail = "none" -> <<>>
      [] trail = "free" -> FreeBox
      [] trail = "truncExt" -> TruncatedExtBox
      [] trail = "seiShaped" -> SeiShapedBox \o FreeBox

MdatBytes(kind, content) ==
    CASE kind = "exact" -> U32Bytes(8 + Len(content)) \o MdatType \o content
      [] kind = "zero" -> U32Bytes(0) \o MdatType \o content
      [] kind = "ext" ->
            U32Bytes(1) \o MdatType \o U32Bytes(0) \o U32Bytes(16 + Len(content))
                \o content
      [] kind = "over" -> U32Bytes(8 + Len(content) + OverBy) \o MdatType \o content
      [] kind = "under" -> U32Bytes(4) \o MdatType \o content
      [] kind = "absent" -> <<>>

BuildBuffer(lead, kind, kinds, trail) ==
    LeadBytes(lead) \o MdatBytes(kind, RegionBytes(kinds)) \o TrailBytes(trail)

\* Bound: units per mdat region.
MaxUnits == 2

(***************************************************************************)
(* extractSeiFromFile (sei-parser.ts 339-372), with the loops of findMdat  *)
(* and iterNals as its steps.                                              *)
(***************************************************************************)

ExtractInit ==
    /\ \E lead \in LeadKinds, kind \in MdatKinds, trail \in TrailKinds :
         \E kinds \in SeqsUpTo(UnitKinds, MaxUnits) :
            /\ kind = "absent" => kinds = <<>>
            \* the boxes around mdat vary with regions of at most one unit
            /\ Len(kinds) > 1 => (lead \in {"none", "ftyp"} /\ trail = "none")
            /\ fileBuffer = BuildBuffer(lead, kind, kinds, trail)
    /\ pos = 0
    /\ mdat = Null
    /\ yielded = <<>>
    /\ frames = <<>>
    /\ frameNumber = 0
    /\ extractPc = "findMdat"
    /\ StripIdle /\ InterpIdle /\ ProtoIdle /\ LocateIdle /\ CsvIdle

\* findMdat: a box that is not mdat is stepped over (line 92).
FindMdatNext ==
    /\ extractPc = "findMdat"
    /\ pos < Len(fileBuffer) - 8
    /\ FindMdatIter(fileBuffer, pos).kind = "next"
    /\ pos' = FindMdatIter(fileBuffer, pos).pos
    /\ UNCHANGED <<fileBuffer, mdat, yielded, frames, frameNumber, extractPc>>
    /\ UNCHANGED <<stripVars, interpVars, protoVars, locateVars, csvVars>>

\* findMdat returns the region (lines 84-89); iterNals starts at its offset.
FindMdatFound ==
    /\ extractPc = "findMdat"
    /\ pos < Len(fileBuffer) - 8
    /\ FindMdatIter(fileBuffer, pos).kind = "found"
    /\ mdat' = [offset |-> FindMdatIter(fileBuffer, pos).offset,
                size |-> FindMdatIter(fileBuffer, pos).size]
    /\ pos' = FindMdatIter(fileBuffer, pos).offset
    /\ extractPc' = "iterNals"
    /\ UNCHANGED <<fileBuffer, yielded, frames, frameNumber>>
    /\ UNCHANGED <<stripVars, interpVars, protoVars, locateVars, csvVars>>

\* findMdat returns null on a corrupt header (lines 74, 91); extraction
\* returns the empty series (lines 344-347).
FindMdatCorrupt ==
    /\ extractPc = "findMdat"
    /\ pos < Len(fileBuffer) - 8
    /\ FindMdatIter(fileBuffer, pos).kind = "null"
    /\ extractPc' = "returned"
    /\ UNCHANGED <<fileBuffer, pos, mdat, yielded, frames, frameNumber>>
    /\ UNCHANGED <<stripVars, interpVars, protoVars, locateVars, csvVars>>

\* findMdat runs out of boxes (line 95); extraction returns the empty series.
FindMdatEnd ==
    /\ extractPc = "findMdat"
    /\ ~(pos < Len(fileBuffer) - 8)
    /\ extractPc' = "returned"
    /\ UNCHANGED <<fileBuffer, pos, mdat, yielded, frames, frameNumber>>
    /\ UNCHANGED <<stripVars, interpVars, protoVars, locateVars, csvVars>>

\* iterNals is at the head of its loop with a unit length to read.
AtNal == extractPc = "iterNals" /\ pos < NalEnd(fileBuffer, mdat) - 4

\* getUint32(pos) is inside the buffer.
NalReadable == pos + 4 <= Len(fileBuffer)

\* Line 147 reads past the buffer: DataView throws a RangeError, which
\* nothing in extractSeiFromFile catches.
NalReadThrows ==
    /\ AtNal
    /\ ~NalReadable
    /\ extractPc' = "threw"
    /\ UNCHANGED <<fileBuffer, pos, mdat, yielded, frames, frameNumber>>
    /\ UNCHANGED <<stripVars, interpVars, protoVars, locateVars, csvVars>>

\* Lines 150-153: a length below 2 or past the region end.
NalSkipUnusable ==
    /\ AtNal
    /\ NalReadable
    /\ NalUnusable(U32BE(fileBuffer, pos), pos + 4, NalEnd(fileBuffer, mdat))
    /\ pos' = pos + 4 + Max(0, U32BE(fileBuffer, pos) - 4)
    /\ UNCHANGED <<fileBuffer, mdat, yielded, frames, frameNumber, extractPc>>
    /\ UNCHANGED <<stripVars, interpVars, protoVars, locateVars, csvVars>>

\* Lines 155-163: a usable unit that is not the telemetry SEI.
NalNotQualifying ==
    /\ AtNal
    /\ NalReadable
    /\ ~NalUnusable(U32BE(fileBuffer, pos), pos + 4, NalEnd(fileBuffer, mdat))
    /\ ~NalQualifies(fileBuffer, pos + 4)
    /\ pos' = pos + 4 + U32BE(fileBuffer, pos)
    /\ UNCHANGED <<fileBuffer, mdat, yielded, frames, frameNumber, extractPc>>
    /\ UNCHANGED <<stripVars, interpVars, protoVars, locateVars, csvVars>>

\* The unit at pos qualifies and is yielded (line 160).
NalYields ==
    /\ AtNal
    /\ NalReadable
    /\ ~NalUnusable(U32BE(fileBuffer, pos), pos + 4, NalEnd(fileBuffer, mdat))
    /\ NalQualifies(fileBuffer, pos + 4)

\* The slice line 160 yields.
YieldedNal == Slice(fileBuffer, pos + 4, pos + 4 + U32BE(fileBuffer, pos))

\* A yielded unit, the loop body of lines 353-367 on it, and line 163.
NalYielded ==
    /\ NalYields
    /\ ~LoopBody(YieldedNal, frames, frameNumber).hangs
    /\ yielded' = Append(yielded, [pos |-> pos + 4, bytes |-> YieldedNal])
    /\ frames' = LoopBody(YieldedNal, frames, frameNumber).frames
    /\ frameNumber' = LoopBody(YieldedNal, frames, frameNumber).frameNumber
    /\ pos' = pos + 4 + U32BE(fileBuffer, pos)
    /\ UNCHANGED <<fileBuffer, mdat, extractPc>>
    /\ UNCHANGED <<stripVars, interpVars, protoVars, locateVars, csvVars>>

\* A yielded unit on whose payload decodeProtobuf never returns.
NalDecodeHangs ==
    /\ NalYields
    /\ LoopBody(YieldedNal, frames, frameNumber).hangs
    /\ yielded' = Append(yielded, [pos |-> pos + 4, bytes |-> YieldedNal])
    /\ extractPc' = "hung"
    /\ UNCHANGED <<fileBuffer, pos, mdat, frames, frameNumber>>
    /\ UNCHANGED <<stripVars, interpVars, protoVars, locateVars, csvVars>>

\* The loop of iterNals ends (line 146); extraction returns (line 371).
IterNalsEnd ==
    /\ extractPc = "iterNals"
    /\ ~(pos < NalEnd(fileBuffer, mdat) - 4)
    /\ extractPc' = "returned"
    /\ UNCHANGED <<fileBuffer, pos, mdat, yielded, frames, frameNumber>>
    /\ UNCHANGED <<stripVars, interpVars, protoVars, locateVars, csvVars>>

ExtractNext ==
    \/ FindMdatNext
    \/ FindMdatFound
    \/ FindMdatCorrupt
    \/ FindMdatEnd
    \/ NalReadThrows
    \/ NalSkipUnusable
    \/ NalNotQualifying
    \/ NalYielded
    \/ NalDecodeHangs
    \/ IterNalsEnd

SpecExtract == ExtractInit /\ [][ExtractNext]_vars

\* C1: for every buffer, extraction does not throw, and no read of the atom
\* locator or of the NAL scanner falls outside the buffer.
C1_NeverThrowsReadsInBounds ==
    /\ extractPc # "threw"
    /\ (extractPc = "findMdat" /\ pos < Len(fileBuffer) - 8)
          => (pos >= 0 /\ pos + 8 <= Len(fileBuffer))
    /\ AtNal => (pos >= 0 /\ NalReadable)
    /\ (AtNal /\ NalReadable
          /\ ~NalUnusable(U32BE(fileBuffer, pos), pos + 4, NalEnd(fileBuffer, mdat)))
          => pos + 4 + 1 < Len(fileBuffer)

\* C3: in the series extraction returns, frame i has frameNumber i (from 0)
\* and timestamp (frameNumber + 1) / 36, and timestamps strictly increase.
C3_IndicesAndTimestamps ==
    extractPc = "returned" =>
        \A k \in 1..Len(frames) :
            /\ frames[k].frameNumber = k - 1
            /\ frames[k].timestamp = Rat(frames[k].frameNumber + 1, 36)
            /\ k > 1 => RLt(frames[k - 1].timestamp, frames[k].timestamp)

\* A returned series of at least two frames.
C3_Witness ==
    /\ extractPc = "returned"
    /\ Len(frames) >= 2

\* The buffers [ftyp][mdat] whose region is n >= 1 qualifying telemetry
\* units, with the series each is to yield: frame k holds unit k's record,
\* index k - 1 and timestamp k / 36.
WellFormedCases ==
    {[buffer |-> BuildBuffer("ftyp", kind, kinds, "none"),
      expect |-> [k \in 1..Len(kinds) |->
                    SeiFrame(k - 1, Rat(k, 36), UnitMeta(kinds[k]))]] :
        kind \in {"exact", "zero", "ext"},
        kinds \in SeqsUpTo(QualifyingKinds, MaxUnits) \ {<<>>}}

\* The scenario of the specification: one unit with version 1 and speed 10.
ScenarioBuffer == BuildBuffer("ftyp", "exact", <<"v1s10">>, "none")

\* C4: a buffer [ftyp][mdat] of n >= 1 qualifying units yields exactly n
\* frames, frame k holding the values of unit k; one unit with version 1 and
\* speed 10 yields one frame with index 0, timestamp 1/36 and speed 10.
C4_WellFormedUnitsYieldFrames ==
    /\ \A c \in WellFormedCases :
         fileBuffer = c.buffer =>
            /\ extractPc \notin {"threw", "hung"}
            /\ extractPc = "returned" => frames = c.expect
    /\ (fileBuffer = ScenarioBuffer /\ extractPc = "returned") =>
         /\ Len(frames) = 1
         /\ frames[1].frameNumber = 0
         /\ frames[1].timestamp = Rat(1, 36)
         /\ frames[1].metadata.version = Some(1)
         /\ frames[1].metadata.vehicleSpeedMps = Some(R(10))

\* A well-formed buffer of two different units has been extracted.
C4_Witness ==
    /\ extractPc = "returned"
    /\ \E c \in WellFormedCases :
         /\ fileBuffer = c.buffer
         /\ Len(c.expect) = 2
         /\ c.expect[1].metadata # c.expect[2].metadata
         /\ frames = c.expect

\* The buffers that are a valid sequence of boxes holding an mdat box: an
\* optional leading box (32-bit or 64-bit size), the mdat box (32-bit size,
\* 64-bit size, or size 0 as the last box) with any content, and an optional
\* trailing box; with the region each is to give.
ValidBoxCases ==
    {[buffer |-> BuildBuffer(lead, kind, kinds, trail),
      offset |-> Len(LeadBytes(lead)) + (IF kind = "ext" THEN 16 ELSE 8),
      size |-> Len(RegionBytes(kinds))] :
        lead \in {"none", "ftyp", "ext"},
        kind \in {"exact", "ext", "zero"},
        kinds \in SeqsUpTo(UnitKinds, MaxUnits),
        trail \in {"none", "free"}}
    \ {[buffer |-> BuildBuffer(lead, "zero", kinds, "free"),
         offset |-> Len(LeadBytes(lead)) + 8,
         size |-> Len(RegionBytes(kinds))] :
           lead \in {"none", "ftyp", "ext"},
           kinds \in SeqsUpTo(UnitKinds, MaxUnits)}

\* C11: on every valid sequence of boxes that holds an mdat box, findMdat
\* returns the end of the mdat header as offset and the box size minus the
\* header size as size, and offset + size is within the buffer.
C11_FindMdatReturnsRegion ==
    \A c \in ValidBoxCases :
        (fileBuffer = c.buffer /\ extractPc # "findMdat") =>
            /\ mdat # Null
            /\ mdat.offset = c.offset
            /\ mdat.size = c.size
            /\ mdat.offset + mdat.size <= Len(fileBuffer)

\* The units that are not an SEI unit of payload type 5.
NonSeiKinds == {"video", "len0", "len1", "seiOther"}

\* The buffers without an mdat box, and the buffers whose mdat region holds
\* no unit of NAL type 6 and payload type 5.
NoTelemetryBuffers ==
    {BuildBuffer(lead, "absent", <<>>, trail) :
        lead \in LeadKinds, trail \in {"none", "free", "truncExt"}}
    \cup
    {BuildBuffer(lead, kind, kinds, trail) :
        lead \in LeadKinds, kind \in MdatKinds \ {"absent"},
        kinds \in SeqsUpTo(NonSeiKinds, MaxUnits),
        trail \in {"none", "free", "truncExt"}}

\* C12: on a buffer without an mdat box, and on a buffer whose mdat region
\* holds no unit of NAL type 6 and payload type 5, extraction raises no
\* error and returns the empty series.
C12_NoTelemetryEmptySeries ==
    fileBuffer \in NoTelemetryBuffers =>
        /\ extractPc \notin {"threw", "hung"}
        /\ extractPc = "returned" => frames = <<>>

\* The buffers [ftyp][mdat] with a consistent mdat size whose only unit
\* declares more bytes than the region has left: 256 for 9, and 10 for 9.
OverrunBuffers ==
    {BuildBuffer("ftyp", kind, <<unit>>, "none") :
        kind \in {"exact", "zero", "ext"}, unit \in {"overrun", "overrun1"}}

\* C13: on a buffer [ftyp][mdat] whose only unit declares a length past the
\* end of the region, extraction does not throw, the scanner yields nothing,
\* and the series returned has 0 frames.
C13_OverrunYieldsNothing ==
    fileBuffer \in OverrunBuffers =>
        /\ extractPc \notin {"threw", "hung"}
        /\ yielded = <<>>
        /\ frames = <<>>
        /\ AtNal => pos = mdat.offset

\* Extraction has returned on the unit that overruns by one byte, after the
\* scanner stepped over it.
C13_Witness ==
    /\ fileBuffer = BuildBuffer("ftyp", "exact", <<"overrun1">>, "none")
    /\ extractPc = "returned"
    /\ pos > mdat.offset
    /\ frames = <<>>

\* The locally corrupt units: declared length 0, declared length 1, no
\* payload marker, and a payload without a version.
CorruptKinds == {"len0", "len1", "noMarker", "noVersion"}

\* The regions of consecutive units of which exactly one, unit j, is
\* corrupt and the others are well-formed telemetry units, with the records
\* of the units after unit j.
CorruptCases ==
    {[buffer |-> BuildBuffer(lead, kind, kinds, "none"),
      after |-> SubSeq([k \in 1..Len(kinds) |->
                          IF kinds[k] \in QualifyingKinds
                          THEN UnitMeta(kinds[k]) ELSE EmptyMeta],
                       (CHOOSE j \in 1..Len(kinds) : kinds[j] \in CorruptKinds) + 1,
                       Len(kinds))] :
        lead \in {"none", "ftyp"},
        kind \in {"exact", "zero", "ext"},
        kinds \in {ks \in SeqsUpTo(QualifyingKinds \cup CorruptKinds, MaxUnits) :
                     Cardinality({j \in 1..Len(ks) : ks[j] \in CorruptKinds}) = 1}}

\* C14: in a region with one locally corrupt unit, every well-formed
\* telemetry unit after the corrupt one produces a frame: the series returned
\* ends with the records of those units, in order.
C14_UnitsAfterCorruptKept ==
    \A c \in CorruptCases :
        fileBuffer = c.buffer =>
            /\ extractPc \notin {"threw", "hung"}
            /\ extractPc = "returned" =>
                  /\ Len(frames) >= Len(c.after)
                  /\ \A k \in 1..Len(c.after) :
                        frames[Len(frames) - Len(c.after) + k].metadata = c.after[k]

\* Units whose declared length is the length of their content, 2 or more.
WellFormedKinds ==
    QualifyingKinds \cup {"noVersion", "noMarker", "negLen", "video", "seiOther", "seiHigh"}

\* Unit k of a region that starts at offset start: the position of its first
\* byte after the length prefix, and its bytes without the prefix.
UnitAt(start, kinds, k) ==
    [pos |-> start + Len(RegionBytes(SubSeq(kinds, 1, k - 1))) + 4,
     bytes |-> SubSeq(UnitBytes(kinds[k]), 5, Len(UnitBytes(kinds[k])))]

\* The low 5 bits of the first byte are 6 and the second byte is 5.
IsTelemetrySei(u) == u.bytes[1] % 32 = 6 /\ u.bytes[2] = 5

\* The buffers [ftyp][mdat] whose region is made of well-formed units, with
\* the units the scanner is to yield.
ScanCases ==
    {[buffer |-> BuildBuffer("ftyp", kind, kinds, "none"),
      expect |-> SelectSeq(
                    [k \in 1..Len(kinds) |->
                        UnitAt(Len(FtypBox) + (IF kind = "ext" THEN 16 ELSE 8),
                               kinds, k)],
                    IsTelemetrySei)] :
        kind \in {"exact", "zero", "ext"},
        kinds \in SeqsUpTo(WellFormedKinds, MaxUnits)}

\* C18: in a region of well-formed units, iterNals yields exactly the units
\* whose first byte has 6 in its low 5 bits and whose second byte is 5, each
\* as the bytes [pos, pos + length) after its length prefix, in stream order;
\* the other units are stepped over.
C18_YieldsExactlySeiUnits ==
    \A c \in ScanCases :
        fileBuffer = c.buffer =>
            /\ extractPc # "threw"
            /\ Len(yielded) <= Len(c.expect)
            /\ yielded = SubSeq(c.expect, 1, Len(yielded))
            /\ extractPc = "returned" => yielded = c.expect

\* A region of an SEI unit of another payload type and a telemetry unit whose
\* first byte has high bits set has been scanned: one unit was yielded.
C18_Witness ==
    /\ fileBuffer = BuildBuffer("ftyp", "exact", <<"seiOther", "seiHigh">>, "none")
    /\ extractPc = "returned"
    /\ Len(yielded) = 1
    /\ yielded[1].pos = Len(FtypBox) + 8 + Len(UnitBytes("seiOther")) + 4
    /\ yielded[1].bytes[1] = 38

(***************************************************************************)
(* extractProtoPayload (sei-parser.ts 117-135), one loop iteration a step. *)
(***************************************************************************)

\* Faulty variant: the unit's last byte is kept in the payload.
PayloadAfterKeepsLast(nal, k) ==
    stripEmulationPreventionBytes(Slice(nal, k + 1, Len(nal)))

\* Line 127: stripEmulationPreventionBytes(nal.slice(i + 1, -1)), for a
\* marker at index k.
PayloadAfter(nal, k) ==
    stripEmulationPreventionBytes(Slice(nal, k + 1, Len(nal) - 1))

\* Bound and inputs of the payload locator's specification: the 3 header
\* bytes of an SEI unit (or fewer), then up to MaxNalTail bytes.
MaxNalTail == 5
LocateBytes == {66, 105, 0, 3, 8}
NalHeader == <<6, 5, 4>>

LocateInit ==
    /\ \/ \E n \in 0..2 : nalUnit = SubSeq(NalHeader, 1, n)
       \/ \E tail \in SeqsUpTo(LocateBytes, MaxNalTail) : nalUnit = NalHeader \o tail
    /\ scanAt = 0
    /\ protoPayload = Undef
    /\ locatePc = "start"
    /\ StripIdle /\ InterpIdle /\ ProtoIdle /\ ExtractIdle /\ CsvIdle

\* Line 118: if (nal.length < 2) return null
LocateTooShort ==
    /\ locatePc = "start"
    /\ Len(nalUnit) < 2
    /\ protoPayload' = Null
    /\ locatePc' = "done"
    /\ UNCHANGED <<nalUnit, scanAt>>
    /\ UNCHANGED <<stripVars, interpVars, protoVars, extractVars, csvVars>>

\* Line 121: the loop starts at i = 3.
LocateEnter ==
    /\ locatePc = "start"
    /\ ~(Len(nalUnit) < 2)
    /\ scanAt' = 3
    /\ locatePc' = "scan"
    /\ UNCHANGED <<nalUnit, protoPayload>>
    /\ UNCHANGED <<stripVars, interpVars, protoVars, extractVars, csvVars>>

\* The loop condition of line 121.
InScan == locatePc = "scan" /\ scanAt < Len(nalUnit) - 1

\* Line 123: if (byte === 0x42) continue
LocateLeadIn ==
    /\ InScan
    /\ nalUnit[scanAt + 1] = 66
    /\ scanAt' = scanAt + 1
    /\ UNCHANGED <<nalUnit, protoPayload, locatePc>>
    /\ UNCHANGED <<stripVars, interpVars, protoVars, extractVars, csvVars>>

\* Lines 124-128: the marker 0x69; i > 2 holds since i starts at 3.
LocateMarker ==
    /\ InScan
    /\ nalUnit[scanAt + 1] = 105
    /\ protoPayload' = Some(PayloadAfter(nalUnit, scanAt))
    /\ locatePc' = "done"
    /\ UNCHANGED <<nalUnit, scanAt>>
    /\ UNCHANGED <<stripVars, interpVars, protoVars, extractVars, csvVars>>

\* Line 131: any other byte leaves the loop; line 134 returns null.
LocateAbort ==
    /\ InScan
    /\ nalUnit[scanAt + 1] \notin {66, 105}
    /\ protoPayload' = Null
    /\ locatePc' = "done"
    /\ UNCHANGED <<nalUnit, scanAt>>
    /\ UNCHANGED <<stripVars, interpVars, protoVars, extractVars, csvVars>>

\* The loop runs out of bytes before the last one; line 134 returns null.
LocateExhausted ==
    /\ locatePc = "scan"
    /\ ~(scanAt < Len(nalUnit) - 1)
    /\ protoPayload' = Null
    /\ locatePc' = "done"
    /\ UNCHANGED <<nalUnit, scanAt>>
    /\ UNCHANGED <<stripVars, interpVars, protoVars, extractVars, csvVars>>

LocateNext ==
    \/ LocateTooShort
    \/ LocateEnter
    \/ LocateLeadIn
    \/ LocateMarker
    \/ LocateAbort
    \/ LocateExhausted

SpecLocate == LocateInit /\ [][LocateNext]_vars

\* Index k (0-based, from 3, before the last byte) holds 0x69 and every
\* index from 3 to k - 1 holds 0x42.
MarkerAt(nal, k) ==
    /\ k >= 3 /\ k < Len(nal) - 1
    /\ nal[k + 1] = 105
    /\ \A j \in 3..(k - 1) : nal[j + 1] = 66

HasMarker(nal) == \E k \in 3..(Len(nal) - 2) : MarkerAt(nal, k)

\* The bytes after the marker up to, not including, the unit's last byte.
RawAfterMarker(nal) ==
    LET k == CHOOSE x \in 3..(Len(nal) - 2) : MarkerAt(nal, x)
    IN SubSeq(nal, k + 2, Len(nal) - 1)

\* C19 as stated: a payload is returned exactly when, from index 3, zero or
\* more 0x42 bytes are followed by 0x69 before the unit's last byte, and it
\* is the bytes after that 0x69 without the unit's last byte.
C19_PayloadIsRawBytes ==
    locatePc = "done" =>
        /\ protoPayload # Null <=> HasMarker(nalUnit)
        /\ HasMarker(nalUnit) => protoPayload = Some(RawAfterMarker(nalUnit))

\* C19, amended: a payload is returned exactly when, from index 3, zero or
\* more 0x42 bytes are followed by 0x69 before the unit's last byte; it is
\* the bytes after that 0x69 without the unit's last byte, with the
\* emulation-prevention bytes removed, and so equal to those bytes when none
\* of them is a 0x03 after two zero bytes.  Extraction's one-step locator
\* returns the same.
C19_PayloadIsNormalizedBytes ==
    locatePc = "done" =>
        /\ protoPayload # Null <=> HasMarker(nalUnit)
        /\ HasMarker(nalUnit) =>
              /\ protoPayload =
                    Some(stripEmulationPreventionBytes(RawAfterMarker(nalUnit)))
              /\ ~Contains(RawAfterMarker(nalUnit), <<0, 0, 3>>) =>
                    protoPayload = Some(RawAfterMarker(nalUnit))
        /\ extractProtoPayload(nalUnit).found <=> protoPayload # Null
        /\ protoPayload # Null =>
              protoPayload = Some(extractProtoPayload(nalUnit).bytes)

\* A payload holding an emulation-prevention byte has been returned without
\* that byte and without the unit's last byte.
C19_Witness ==
    /\ locatePc = "done"
    /\ nalUnit = NalHeader \o <<105, 0, 0, 3, 8>>
    /\ protoPayload = Some(<<0, 0>>)

(***************************************************************************)
(* seiFramesToCsv (sei-parser.ts 40-58, 432-474).  A text is the sequence  *)
(* of its pieces: a string literal of the code is one piece, a formatted   *)
(* number is one piece per character, and the separators "," and "\n" are  *)
(* pieces of their own.                                                    *)
(***************************************************************************)

Digits == <<"0", "1", "2", "3", "4", "5", "6", "7", "8", "9">>

\* The decimal digits of a natural number.
RECURSIVE NatText(_)
NatText(n) ==
    IF n < 10 THEN <<Digits[n + 1]>>
    ELSE NatText(n \div 10) \o <<Digits[(n % 10) + 1]>>

\* String(n) for an integer, as Array.prototype.join applies it.
IntText(n) == IF n < 0 THEN <<"-">> \o NatText(-n) ELSE NatText(n)

\* Number.prototype.toFixed(f) for a finite number below 10^21: the nearest
\* multiple of 10^-f, the larger one of two equally near, with f digits
\* after the point; a negative number is formatted as "-" and its negation.
toFixed(x, f) ==
    LET scaled == (2 * Abs(x.n) * (10 ^ f) + x.d) \div (2 * x.d)
    IN (IF x.n < 0 THEN <<"-">> ELSE <<>>)
         \o NatText(scaled \div (10 ^ f))
         \o <<".">>
         \o [k \in 1..f |-> Digits[((scaled \div (10 ^ (f - k))) % 10) + 1]]

\* Faulty variant: DRIVE and REVERSE are exchanged.
gearStateToStringSwapped(gear) ==
    CASE gear = 0 -> "P"
      [] gear = 1 -> "R"
      [] gear = 2 -> "D"
      [] gear = 3 -> "N"
      [] OTHER -> "-"

\* gearStateToString (lines 40-48).
gearStateToString(gear) ==
    CASE gear = 0 -> "P"
      [] gear = 1 -> "D"
      [] gear = 2 -> "R"
      [] gear = 3 -> "N"
      [] OTHER -> "-"

\* autopilotStateToString (lines 50-58).
autopilotStateToString(state) ==
    CASE state = 0 -> "Off"
      [] state = 1 -> "FSD"
      [] state = 2 -> "Autosteer"
      [] state = 3 -> "TACC"
      [] OTHER -> "Unknown"

\* Lines 433-451.
headers ==
    <<"frame_number", "timestamp", "version", "gear_state", "vehicle_speed_mps",
      "accelerator_pedal_position", "steering_wheel_angle", "blinker_on_left",
      "blinker_on_right", "brake_applied", "autopilot_state", "latitude_deg",
      "longitude_deg", "heading_deg", "linear_acceleration_x",
      "linear_acceleration_y", "linear_acceleration_z">>

\* v?.toFixed(f) ?? '' : the empty text for an absent value.
FixedOrEmpty(o, f) == IF o = Undef THEN <<>> ELSE toFixed(Val(o), f)

\* b ?? '' under join: true, false, or the empty text.
BoolOrEmpty(o) ==
    IF o = Undef THEN <<>> ELSE IF Val(o) THEN <<"true">> ELSE <<"false">>

\* o ?? dflt
OrElse(o, dflt) == IF o = Undef THEN dflt ELSE Val(o)

\* The array of lines 453-471 for one frame, each cell as the text join
\* makes of it.
CsvRow(frame) ==
    LET md == frame.metadata
    IN <<IntText(frame.frameNumber),
         toFixed(frame.timestamp, 3),
         IF md.version = Undef THEN <<>> ELSE IntText(Val(md.version)),
         <<gearStateToString(OrElse(md.gearState, 0))>>,
         FixedOrEmpty(md.vehicleSpeedMps, 2),
         FixedOrEmpty(md.acceleratorPedalPosition, 2),
         FixedOrEmpty(md.steeringWheelAngle, 2),
         BoolOrEmpty(md.blinkerOnLeft),
         BoolOrEmpty(md.blinkerOnRight),
         BoolOrEmpty(md.brakeApplied),
         <<autopilotStateToString(OrElse(md.autopilotState, 0))>>,
         FixedOrEmpty(md.latitudeDeg, 6),
         FixedOrEmpty(md.longitudeDeg, 6),
         FixedOrEmpty(md.headingDeg, 2),
         FixedOrEmpty(md.linearAccelerationMps2X, 4),
         FixedOrEmpty(md.linearAccelerationMps2Y, 4),
         FixedOrEmpty(md.linearAccelerationMps2Z, 4)>>

\* Array.prototype.join(sep) on texts.
RECURSIVE JoinText(_, _)
JoinText(parts, sep) ==
    IF parts = <<>> THEN <<>>
    ELSE IF Len(parts) = 1 THEN parts[1]
    ELSE parts[1] \o <<sep>> \o JoinText(Tail(parts), sep)

\* Line 473: [headers.join(','), ...rows.map(r => r.join(','))].join('\n')
CsvJoinAll(rs) ==
    JoinText(<<JoinText([k \in 1..Len(headers) |-> <<headers[k]>>], ",")>>
                \o [k \in 1..Len(rs) |-> JoinText(rs[k], ",")],
             "\n")

\* Bound and inputs of the exporter's specification: series as extraction
\* builds them, of records the decoder returns.
MaxCsvFrames == 2

\* version 1 with gear 7 and autopilot 5, values outside the enums
MGearSeven == decodeProtobuf(<<8, 1, 16, 7, 80, 5>>).result
\* version 1 with gear NEUTRAL and autopilot TACC
MNeutralTacc == decodeProtobuf(<<8, 1, 16, 3, 80, 3>>).result
\* version 1 with gear PARK and autopilot AUTOSTEER
MParkAutosteer == decodeProtobuf(<<8, 1, 16, 0, 80, 2>>).result

CsvMetas == SampleMetas \cup {MGearSeven, MNeutralTacc, MParkAutosteer}

CsvInit ==
    /\ \E n \in 0..MaxCsvFrames :
         \E metas \in [1..n -> CsvMetas] :
            csvFrames = [k \in 1..n |-> SeiFrame(k - 1, Rat(k, FrameRate), metas[k])]
    /\ rows = <<>>
    /\ csvText = <<>>
    /\ csvPc = "map"
    /\ StripIdle /\ InterpIdle /\ ProtoIdle /\ ExtractIdle /\ LocateIdle

\* Lines 453-471: frames.map builds the row of the next frame.
CsvMapRow ==
    /\ csvPc = "map"
    /\ Len(rows) < Len(csvFrames)
    /\ rows' = Append(rows, CsvRow(csvFrames[Len(rows) + 1]))
    /\ UNCHANGED <<csvFrames, csvText, csvPc>>
    /\ UNCHANGED <<stripVars, interpVars, protoVars, extractVars, locateVars>>

\* Line 473: the header and the rows are joined and returned.
CsvJoin ==
    /\ csvPc = "map"
    /\ Len(rows) = Len(csvFrames)
    /\ csvText' = CsvJoinAll(rows)
    /\ csvPc' = "done"
    /\ UNCHANGED <<csvFrames, rows>>
    /\ UNCHANGED <<stripVars, interpVars, protoVars, extractVars, locateVars>>

CsvNext == CsvMapRow \/ CsvJoin

SpecCsv == CsvInit /\ [][CsvNext]_vars

\* The pieces of a text between the occurrences of a separator.
RECURSIVE SplitText(_, _)
SplitText(t, sep) ==
    IF \A k \in 1..Len(t) : t[k] # sep THEN <<t>>
    ELSE LET k == CHOOSE x \in 1..Len(t) :
                     t[x] = sep /\ \A y \in 1..(x - 1) : t[y] # sep
         IN <<SubSeq(t, 1, k - 1)>> \o SplitText(SubSeq(t, k + 1, Len(t)), sep)

\* The documented column order.
DocumentedColumns ==
    <<"frame_number", "timestamp", "version", "gear_state", "vehicle_speed_mps",
      "accelerator_pedal_position", "steering_wheel_angle", "blinker_on_left",
      "blinker_on_right", "brake_applied", "autopilot_state", "latitude_deg",
      "longitude_deg", "heading_deg", "linear_acceleration_x",
      "linear_acceleration_y", "linear_acceleration_z">>

\* The record field of each boolean and of each fixed-decimal column.
BoolColumns ==
    8 :> "blinkerOnLeft" @@ 9 :> "blinkerOnRight" @@ 10 :> "brakeApplied"

NumberColumns ==
    5 :> "vehicleSpeedMps" @@ 6 :> "acceleratorPedalPosition"
      @@ 7 :> "steeringWheelAngle" @@ 12 :> "latitudeDeg" @@ 13 :> "longitudeDeg"
      @@ 14 :> "headingDeg" @@ 15 :> "linearAccelerationMps2X"
      @@ 16 :> "linearAccelerationMps2Y" @@ 17 :> "linearAccelerationMps2Z"

GearNames == <<"P", "D", "R", "N">>
AutopilotNames == <<"Off", "FSD", "Autosteer", "TACC">>

\* The text has one line more than the series has frames; the first line is
\* the 17 documented column names; line k + 1 has 17 cells and is the row of
\* frame k: its index, its version, each boolean as true, false or empty
\* when absent, each fixed-decimal cell empty exactly when the field is
\* absent.
CsvShape ==
    LET lines == SplitText(csvText, "\n")
    IN /\ Len(lines) = Len(csvFrames) + 1
       /\ Len(DocumentedColumns) = 17
       /\ SplitText(lines[1], ",") = [k \in 1..17 |-> <<DocumentedColumns[k]>>]
       /\ \A k \in 1..Len(csvFrames) :
            LET cells == SplitText(lines[k + 1], ",")
                md == csvFrames[k].metadata
            IN /\ Len(cells) = 17
               /\ cells[1] = IntText(csvFrames[k].frameNumber)
               /\ cells[2] # <<>>
               /\ md.version # Undef => cells[3] = IntText(Val(md.version))
               /\ \A c \in DOMAIN BoolColumns :
                     cells[c] = (IF md[BoolColumns[c]] = Undef THEN <<>>
                                 ELSE IF Val(md[BoolColumns[c]]) THEN <<"true">>
                                 ELSE <<"false">>)
               /\ \A c \in DOMAIN NumberColumns :
                     cells[c] = <<>> <=> md[NumberColumns[c]] = Undef

\* The gear and autopilot cells of row k.
GearCell(k) == SplitText(SplitText(csvText, "\n")[k + 1], ",")[4]
AutopilotCell(k) == SplitText(SplitText(csvText, "\n")[k + 1], ",")[11]

\* A value of the enum, 0..3.
InEnum(o) == o # Undef /\ Val(o) \in 0..3

\* C20 as stated: n + 1 lines, the 17-column header, one row of 17 cells per
\* frame in series order, booleans as true, false or empty, and every gear
\* cell one of P/D/R/N, every autopilot cell one of Off/FSD/Autosteer/TACC.
C20_CsvEnumsAlwaysMnemonic ==
    csvPc = "done" =>
        /\ CsvShape
        /\ \A k \in 1..Len(csvFrames) :
             LET md == csvFrames[k].metadata
             IN /\ \E g \in 1..4 : GearCell(k) = <<GearNames[g]>>
                /\ \E a \in 1..4 : AutopilotCell(k) = <<AutopilotNames[a]>>
                /\ InEnum(md.gearState) =>
                      GearCell(k) = <<GearNames[Val(md.gearState) + 1]>>
                /\ InEnum(md.autopilotState) =>
                      AutopilotCell(k) = <<AutopilotNames[Val(md.autopilotState) + 1]>>

\* C20, amended: n + 1 lines, the 17-column header, one row of 17 cells per
\* frame in series order, booleans as true, false or empty; gear 0..3 is
\* P/D/R/N and autopilot 0..3 is Off/FSD/Autosteer/TACC, an absent gear is P
\* and an absent autopilot state Off, and any other value is "-" for gear and
\* "Unknown" for autopilot.
C20_CsvEnumsMnemonicInRange ==
    csvPc = "done" =>
        /\ CsvShape
        /\ \A k \in 1..Len(csvFrames) :
             LET md == csvFrames[k].metadata
             IN /\ GearCell(k) =
                     (IF md.gearState = Undef THEN <<"P">>
                      ELSE IF InEnum(md.gearState)
                      THEN <<GearNames[Val(md.gearState) + 1]>>
                      ELSE <<"-">>)
                /\ AutopilotCell(k) =
                     (IF md.autopilotState = Undef THEN <<"Off">>
                      ELSE IF InEnum(md.autopilotState)
                      THEN <<AutopilotNames[Val(md.autopilotState) + 1]>>
                      ELSE <<"Unknown">>)

\* A series of two frames has been exported: one in DRIVE with FSD and
\* booleans set, one with gear 7 and no booleans.
C20_Witness ==
    /\ csvPc = "done"
    /\ Len(csvFrames) = 2
    /\ csvFrames[1].metadata = M2
    /\ csvFrames[2].metadata = MGearSeven
    /\ Len(SplitText(csvText, "\n")) = 3
    /\ GearCell(1) = <<"D">>
    /\ GearCell(2) = <<"-">>

\* The reader symmetric to the exporter: the inverse of IntText, of the
\* boolean texts and of the mnemonic tables; an empty cell is an absent
\* field, and a mnemonic outside the table reads as no value of the enum.
DigitValue(ch) == CHOOSE d \in 0..9 : Digits[d + 1] = ch

RECURSIVE TextToNat(_)
TextToNat(t) ==
    IF t = <<>> THEN 0
    ELSE TextToNat(SubSeq(t, 1, Len(t) - 1)) * 10 + DigitValue(t[Len(t)])

TextToInt(t) == IF t[1] = "-" THEN -TextToNat(Tail(t)) ELSE TextToNat(t)

ReadInt(cell) == IF cell = <<>> THEN Undef ELSE Some(TextToInt(cell))

ReadBool(cell) == IF cell = <<>> THEN Undef ELSE Some(cell = <<"true">>)

ReadEnum(cell, names) ==
    IF cell = <<>> THEN Undef
    ELSE IF \E g \in 1..Len(names) : cell = <<names[g]>>
    THEN Some((CHOOSE g \in 1..Len(names) : cell = <<names[g]>>) - 1)
    ELSE Some(-1)

\* Row k of the exported text, read back.
ReadRow(k) ==
    LET cells == SplitText(SplitText(csvText, "\n")[k + 1], ",")
    IN [frameNumber |-> TextToInt(cells[1]),
        version |-> ReadInt(cells[3]),
        gearState |-> ReadEnum(cells[4], GearNames),
        blinkerOnLeft |-> ReadBool(cells[8]),
        blinkerOnRight |-> ReadBool(cells[9]),
        brakeApplied |-> ReadBool(cells[10]),
        autopilotState |-> ReadEnum(cells[11], AutopilotNames)]

\* The fields of a frame that a row is read back into.
Exported(frame) ==
    [frameNumber |-> frame.frameNumber,
     version |-> frame.metadata.version,
     gearState |-> frame.metadata.gearState,
     blinkerOnLeft |-> frame.metadata.blinkerOnLeft,
     blinkerOnRight |-> frame.metadata.blinkerOnRight,
     brakeApplied |-> frame.metadata.brakeApplied,
     autopilotState |-> frame.metadata.autopilotState]

\* C21: reading the exported text back with the symmetric reader gives as
\* many frames as the series has and, for every frame, the same frame
\* number, version, gear state, turn-signal flags, brake flag and autopilot
\* state, absent where the frame's field is absent.
C21_CsvRoundTrip ==
    csvPc = "done" =>
        /\ Len(SplitText(csvText, "\n")) - 1 = Len(csvFrames)
        /\ \A k \in 1..Len(csvFrames) : ReadRow(k) = Exported(csvFrames[k])

\* The distance of frame k of the series from the query time.
Distance(k) ==
    IF RLeq(series[k].timestamp, currentTime)
    THEN RSub(currentTime, series[k].timestamp)
    ELSE RSub(series[k].timestamp, currentTime)

Closest(k) == \A j \in 1..Len(series) : RLeq(Distance(k), Distance(j))

YieldedFrom(k) == yielded[k].pos
YieldedTo(k) == yielded[k].pos + Len(yielded[k].bytes)

\* C23: every slice iterNals yields lies inside the region it was given,
\* [offset, offset + size); the slices are disjoint and in ascending
\* position; a region of size 0 yields no slice.
C23_YieldedInsideRegion ==
    mdat # Null =>
        /\ \A k \in 1..Len(yielded) :
              /\ mdat.offset <= YieldedFrom(k)
              /\ YieldedTo(k) <= mdat.offset + mdat.size
              /\ k > 1 => YieldedTo(k - 1) <= YieldedFrom(k)
        /\ mdat.size = 0 => yielded = <<>>

\* The specified order: the whole unit is normalized first, then the payload
\* is located in the normalized unit (the bytes after the marker, without
\* the last byte).
NormalizeThenLocate(nal) ==
    LET unit == stripEmulationPreventionBytes(nal)
    IN IF Len(unit) < 2 \/ MarkerFrom(unit, 3) < 0 THEN Null
       ELSE Some(Slice(unit, MarkerFrom(unit, 3) + 1, Len(unit) - 1))

\* C24: the payload extractProtoPayload returns for a unit (located in the
\* raw unit, last byte dropped, then normalized) is the payload found by
\* normalizing the whole unit and locating the payload in the result, also
\* for a unit whose last bytes are 00 00 03.
C24_OrderOfNormalizationIrrelevant ==
    locatePc = "done" => protoPayload = NormalizeThenLocate(nalUnit)

\* The record decoded from a yielded unit; the empty record when the unit
\* has no payload marker or its decoding does not return.
DecodedOf(nal) ==
    LET pl == extractProtoPayload(nal)
    IN IF pl.found /\ ~decodeProtobuf(pl.bytes).hangs
       THEN decodeProtobuf(pl.bytes).result
       ELSE EmptyMeta

HasVersion(md) == md.version # Undef

\* The records of the units yielded so far that have a version, in the
\* order of discovery.
RetainedRecords ==
    SelectSeq([k \in 1..Len(yielded) |-> DecodedOf(yielded[k].bytes)], HasVersion)

\* C25: at every point of the extraction the series is the decoded records
\* with a defined version (0 included) of the units discovered so far, in
\* order; the k-th of them has index k - 1 and timestamp k / 36, so a unit
\* that gives no frame consumes no index.
C25_SeriesIsRetainedRecords ==
    /\ Len(frames) = Len(RetainedRecords)
    /\ \A k \in 1..Len(frames) :
          frames[k] = SeiFrame(k - 1, Rat(k, FrameRate), RetainedRecords[k])
    /\ frameNumber = Len(frames)

\* A returned series of one frame of version 0, decoded from the second
\* yielded unit; the first yielded unit gave no frame.
C25_Witness ==
    /\ extractPc = "returned"
    /\ Len(yielded) = 2
    /\ ~HasVersion(DecodedOf(yielded[1].bytes))
    /\ DecodedOf(yielded[2].bytes).version = Some(0)
    /\ frames = <<SeiFrame(0, Rat(1, FrameRate), DecodedOf(yielded[2].bytes))>>

\* C26: every iteration of the loop of findMdat that does not return moves
\* the cursor forward by at least the header size of the box it read; every
\* iteration of the loop of iterNals moves it forward by at least 4, on the
\* unusable-length branch too; and iterNals reads a length only while more
\* than 4 bytes remain before the end of its region, offset + size.
C26_CursorAdvancesScanStops ==
    /\ [][(extractPc = "findMdat" /\ extractPc' = "findMdat") =>
             pos' >= pos + BoxHeader(fileBuffer, pos).headerSize]_vars
    /\ [][(extractPc = "iterNals" /\ extractPc' = "iterNals") =>
             pos' >= pos + 4]_vars
    /\ [](AtNal => mdat.offset + mdat.size - pos > 4)

EscapePositions(x) ==
    {p \in 3..Len(x) : x[p] = 3 /\ x[p - 1] = 0 /\ x[p - 2] = 0}

\* x from position k on, without the positions in D.
RECURSIVE Without(_, _, _)
Without(x, D, k) ==
    IF k > Len(x) THEN <<>>
    ELSE (IF k \in D THEN <<>> ELSE <<x[k]>>) \o Without(x, D, k + 1)

\* C28: the output of stripEmulationPreventionBytes is its input without
\* some of its bytes, in the same order and so no longer than the input;
\* every byte removed is a 0x03 that comes right after two or more 0x00
\* bytes (which are all kept), and an input without 0x03 comes back
\* unchanged.
C28_RemovesOnlyEscapeBytes ==
    stripPc \in {"pass2", "done"} =>
        /\ firstOut = Without(stripIn, EscapePositions(stripIn), 1)
        /\ Len(firstOut) <= Len(stripIn)
        /\ (\A p \in 1..Len(stripIn) : stripIn[p] # 3) => firstOut = stripIn

\* An input with a 0x03 that is removed and a 0x03 that is kept.
C28_Witness ==
    /\ stripPc = "done"
    /\ EscapePositions(stripIn) # {}
    /\ Len(firstOut) = Len(stripIn) - 1
    /\ \E p \in 1..Len(firstOut) : firstOut[p] = 3

\* C29: a region returned by findMdat has a size of 0 or more and ends at or
\* before the end of the buffer, whatever the buffer; an mdat box declaring
\* less than its header or more than the rest of the buffer gives no such
\* region.
C29_RegionInsideBuffer ==
    mdat # Null =>
        /\ mdat.size >= 0
        /\ mdat.offset + mdat.size <= Len(fileBuffer)

\* The record field of every column that holds an optional field.
OptionalColumns ==
    3 :> "version" @@ 4 :> "gearState" @@ 11 :> "autopilotState"
      @@ BoolColumns @@ NumberColumns

\* Cell c of row k of the exported text.
CsvCell(k, c) == SplitText(SplitText(csvText, "\n")[k + 1], ",")[c]

\* C30: in the exported text the cell of an absent optional field is empty;
\* so the gear cell of a frame without gear state differs from that of a
\* frame in Park, and the autopilot cell of a frame without autopilot state
\* from that of a frame whose autopilot state is None.
C30_AbsentFieldEmptyCell ==
    csvPc = "done" =>
        /\ \A k \in 1..Len(csvFrames) : \A c \in DOMAIN OptionalColumns :
              csvFrames[k].metadata[OptionalColumns[c]] = Undef =>
                 CsvCell(k, c) = <<>>
        /\ \A j, k \in 1..Len(csvFrames) :
              /\ (csvFrames[j].metadata.gearState = Undef
                    /\ csvFrames[k].metadata.gearState = Some(0))
                   => CsvCell(j, 4) # CsvCell(k, 4)
              /\ (csvFrames[j].metadata.autopilotState = Undef
                    /\ csvFrames[k].metadata.autopilotState = Some(0))
                   => CsvCell(j, 11) # CsvCell(k, 11)

====
